---- MODULE Spec2Model ----
\* A model of src/main.py: the nightly clean-up of a Notion to-do page.
\* The page is a flat list of blocks; the script resets the Daily checklist,
\* moves Tomorrow to Today, removes completed items and moves unfinished
\* Today items to Backlog, talking to the Notion API one call at a time.
EXTENDS Integers, Sequences, FiniteSets, TLC

\* ---------------------------------------------------------------- bounds
\* Largest number of non-header blocks in a document in canonical header order.
MaxItems == 2
\* Largest number of non-header blocks in a document whose headers are permuted.
MaxPermItems == 1
\* Largest length of a block list handed to the range functions alone.
MaxLen == 4
\* Largest number of spaces put in front of a text handed to the header test.
MaxPad == 2

\* ------------------------------------------------------------- constants
\* Python's None for an index (main.py:192, main.py:229).
NoIdx == -1
\* Python's None for a database id (os.getenv unset, or a search that finds nothing).
NoDb == "None"
\* Python's None for a block id (section_header_id, main.py:277).
NoId == 0

HeadingTypes == {"heading_1", "heading_2", "heading_3"}

\* Texts are sequences of one-character strings.
DailyName == <<"D", "a", "i", "l", "y">>
TodayName == <<"T", "o", "d", "a", "y">>
TomorrowName == <<"T", "o", "m", "o", "r", "r", "o", "w">>
BacklogName == <<"B", "a", "c", "k", "l", "o", "g">>

Sections == {"daily", "today", "tomorrow", "backlog"}

\* ------------------------------------------------------------ text helpers
\* str.lower() on the characters the model uses.
Lower(c) ==
  CASE c = "D" -> "d"
    [] c = "T" -> "t"
    [] c = "B" -> "b"
    [] c = "A" -> "a"
    [] c = "O" -> "o"
    [] c = "Y" -> "y"
    [] OTHER -> c

LowerStr(s) == [k \in 1..Len(s) |-> Lower(s[k])]

\* str.upper() on the characters the model uses.
Upper(c) ==
  CASE c = "d" -> "D"
    [] c = "t" -> "T"
    [] c = "b" -> "B"
    [] c = "a" -> "A"
    [] OTHER -> c

\* str.capitalize(): first character upper-cased, the rest lower-cased.
Capitalize(s) ==
  [k \in 1..Len(s) |-> IF k = 1 THEN Upper(s[k]) ELSE Lower(s[k])]

IsSpace(c) == c = " "

RECURSIVE LStrip(_)
LStrip(s) ==
  IF s # <<>> /\ IsSpace(Head(s)) THEN LStrip(Tail(s)) ELSE s

RECURSIVE RStrip(_)
RStrip(s) ==
  IF s # <<>> /\ IsSpace(s[Len(s)]) THEN RStrip(SubSeq(s, 1, Len(s) - 1)) ELSE s

\* str.strip()
Strip(s) == LStrip(RStrip(s))

\* str.rstrip(":")
RECURSIVE RStripColon(_)
RStripColon(s) ==
  IF s # <<>> /\ s[Len(s)] = ":" THEN RStripColon(SubSeq(s, 1, Len(s) - 1)) ELSE s

\* str.startswith
StartsWith(s, t) == Len(s) >= Len(t) /\ SubSeq(s, 1, Len(t)) = t

\* The lower-case section key used by the callers, as characters.
SectionChars(s) ==
  CASE s = "daily" -> LowerStr(DailyName)
    [] s = "today" -> LowerStr(TodayName)
    [] s = "tomorrow" -> LowerStr(TomorrowName)
    [] s = "backlog" -> LowerStr(BacklogName)

\* ------------------------------------------------------------ block model
\* A block: id, type, text (the joined plain_text of its rich_text), checked
\* (to_do only), and src, a history field: for a copy, the id of the block of
\* the run's starting document it descends from (NoId for a block that is no
\* copy).
Block(id, type, text, checked, src) ==
  [id |-> id, type |-> type, text |-> text, checked |-> checked, src |-> src]

\* rich_text_to_plain
rich_text_to_plain(b) ==
  IF b.type \in HeadingTypes \cup {"paragraph"} THEN Strip(b.text)
  ELSE IF b.type = "to_do" THEN Strip(b.text)
  ELSE <<>>

\* A test that takes any block with blank text for an empty paragraph.
is_empty_block(b) == Strip(b.text) = <<>>

\* is_empty_paragraph
is_empty_paragraph(b) ==
  IF b.type # "paragraph" THEN FALSE ELSE Strip(b.text) = <<>>

\* A header test that asks for the whole text, not a prefix.
is_header_exact(b, target) ==
  IF b.type \notin HeadingTypes \cup {"paragraph"} THEN FALSE
  ELSE LowerStr(Strip(RStripColon(rich_text_to_plain(b)))) = LowerStr(target)

\* is_header_with_text, for a one-element targets list
is_header_with_text(b, target) ==
  IF b.type \notin HeadingTypes \cup {"paragraph"} THEN FALSE
  ELSE StartsWith(LowerStr(Strip(RStripColon(rich_text_to_plain(b)))),
                  LowerStr(target))

\* A clone that loses the rich text.
clone_without_text(b) ==
  Block(NoId, "to_do", <<>>, FALSE, IF b.src # NoId THEN b.src ELSE b.id)

\* clone_todo_block: an unchecked copy with the same rich text (no id yet).
clone_todo_block(b) ==
  Block(NoId, "to_do", b.text, FALSE, IF b.src # NoId THEN b.src ELSE b.id)

\* The empty unchecked to_do literal of main.py:403-411.
PlaceholderBlock == Block(NoId, "to_do", <<>>, FALSE, NoId)

\* ------------------------------------------------------- section partition
\* The index (0-based) of the first block that is a header of `name`, or NoIdx:
\* the "idx is None and is_header_with_text" scan of both range functions.
FirstHeaderIdx(blocks, name) ==
  LET hits == {k \in 1..Len(blocks) : is_header_with_text(blocks[k], name)}
  IN IF hits = {} THEN NoIdx
     ELSE (CHOOSE k \in hits : \A j \in hits : k <= j) - 1

\* min([x for x in xs if x is not None], default=n)
MinPresent(xs, n) ==
  LET present == {x \in xs : x # NoIdx}
  IN IF present = {} THEN n ELSE CHOOSE x \in present : \A y \in present : x <= y

\* Python's blocks[start:end] for 0 <= start, 0 <= end <= len.
Slice(blocks, start, end) == SubSeq(blocks, start + 1, end)

\* A partition whose Today slice runs to the Backlog header, over Tomorrow.
partition_today_to_backlog(blocks) ==
  LET idx_daily == FirstHeaderIdx(blocks, DailyName)
      idx_today == FirstHeaderIdx(blocks, TodayName)
      idx_tomorrow == FirstHeaderIdx(blocks, TomorrowName)
      idx_backlog == FirstHeaderIdx(blocks, BacklogName)
      n == Len(blocks)
  IN [daily |-> IF idx_daily # NoIdx
                THEN Slice(blocks, idx_daily + 1,
                           MinPresent({idx_today, idx_tomorrow, idx_backlog}, n))
                ELSE <<>>,
      today |-> IF idx_today # NoIdx
                THEN Slice(blocks, idx_today + 1, MinPresent({idx_backlog}, n))
                ELSE <<>>,
      tomorrow |-> IF idx_tomorrow # NoIdx
                   THEN Slice(blocks, idx_tomorrow + 1, MinPresent({idx_backlog}, n))
                   ELSE <<>>,
      backlog |-> IF idx_backlog # NoIdx
                  THEN Slice(blocks, idx_backlog + 1, n)
                  ELSE <<>>]

\* partition_by_sections
partition_by_sections(blocks) ==
  LET idx_daily == FirstHeaderIdx(blocks, DailyName)
      idx_today == FirstHeaderIdx(blocks, TodayName)
      idx_tomorrow == FirstHeaderIdx(blocks, TomorrowName)
      idx_backlog == FirstHeaderIdx(blocks, BacklogName)
      n == Len(blocks)
  IN [daily |-> IF idx_daily # NoIdx
                THEN Slice(blocks, idx_daily + 1,
                           MinPresent({idx_today, idx_tomorrow, idx_backlog}, n))
                ELSE <<>>,
      today |-> IF idx_today # NoIdx
                THEN Slice(blocks, idx_today + 1,
                           MinPresent({idx_tomorrow, idx_backlog}, n))
                ELSE <<>>,
      tomorrow |-> IF idx_tomorrow # NoIdx
                   THEN Slice(blocks, idx_tomorrow + 1, MinPresent({idx_backlog}, n))
                   ELSE <<>>,
      backlog |-> IF idx_backlog # NoIdx
                  THEN Slice(blocks, idx_backlog + 1, n)
                  ELSE <<>>]

\* A range whose end is the list length whatever headers follow.
get_section_range_to_end(blocks, section_name) ==
  LET name == CASE section_name = "daily" -> DailyName
                [] section_name = "today" -> TodayName
                [] section_name = "tomorrow" -> TomorrowName
                [] OTHER -> BacklogName
      idx == FirstHeaderIdx(blocks, name)
  IN IF idx # NoIdx THEN <<idx + 1, Len(blocks)>> ELSE <<0, 0>>

\* get_section_range: <<start, end>>
get_section_range(blocks, section_name) ==
  LET daily_idx == FirstHeaderIdx(blocks, DailyName)
      today_idx == FirstHeaderIdx(blocks, TodayName)
      tomorrow_idx == FirstHeaderIdx(blocks, TomorrowName)
      backlog_idx == FirstHeaderIdx(blocks, BacklogName)
      n == Len(blocks)
  IN IF section_name = "daily" /\ daily_idx # NoIdx
       THEN <<daily_idx + 1, MinPresent({today_idx, tomorrow_idx, backlog_idx}, n)>>
     ELSE IF section_name = "today" /\ today_idx # NoIdx
       THEN <<today_idx + 1, MinPresent({tomorrow_idx, backlog_idx}, n)>>
     ELSE IF section_name = "tomorrow" /\ tomorrow_idx # NoIdx
       THEN <<tomorrow_idx + 1, IF backlog_idx # NoIdx THEN backlog_idx ELSE n>>
     ELSE IF section_name = "backlog" /\ backlog_idx # NoIdx
       THEN <<backlog_idx + 1, n>>
     ELSE <<0, 0>>

\* section_header_id: the id of the first header of the section, or NoId.
section_header_id(blocks, section) ==
  LET k == FirstHeaderIdx(blocks, Capitalize(SectionChars(section)))
  IN IF k = NoIdx THEN NoId ELSE blocks[k + 1].id

\* ------------------------------------------------------------------ state
VARIABLES
  doc,          \* the page's children in the Notion store, in order
  doc0,         \* history: the page as it was when the run started
  nextId,       \* the id the store gives the next created block
  doneLog,      \* records of the "Done" database (archived items)
  dailyLog,     \* records of the "Daily Completion" database
  envDone,      \* NOTION_DONE_DB_ID of the environment
  envDaily,     \* NOTION_DAILY_COMP_DB_ID of the environment
  DONE_DB_ID,   \* the module global
  DAILY_COMP_DB_ID,
  pc,           \* position in main() / cleanup_todo_page()
  err,          \* why the process ended, "none" while it has not failed
  blocks,       \* the local `blocks`
  parts,        \* the local `parts`
  work,         \* what the current for-loop has still to visit
  daily_total,
  daily_completed,
  today_header,
  backlog_header,
  to_append_today,
  to_delete_tomorrow_ids,
  to_append,
  to_delete_ids,
  blocks_after, \* blocks_after_backlog_append, then blocks_after
  deleted,      \* history: ids of the delete commands the store accepted
  lookups,      \* history: title searches issued per store in this run
  faults,       \* history: some gateway call of this run failed
  run,          \* history: 1 in the first run, 2 in a second one
  chaos,        \* environment: whether gateway calls can fail at all
  qblocks,      \* a block list handed to the range functions alone
  qsection,     \* the section last asked for
  qrange,       \* what get_section_range returned for it
  qparts,       \* what partition_by_sections returned
  qheader       \* what is_header_with_text returned

store == <<doc, nextId, doneLog, dailyLog>>
dbids == <<DONE_DB_ID, DAILY_COMP_DB_ID>>
query == <<qblocks, qsection, qrange, qparts, qheader>>
environment == <<doc0, envDone, envDaily, run, chaos, query>>
daily_stats == <<daily_total, daily_completed>>
header_ids == <<today_header, backlog_header>>
tomorrow_lists == <<to_append_today, to_delete_tomorrow_ids>>
today_lists == <<to_append, to_delete_ids>>
snapshot == <<blocks, parts>>
vars == <<store, dbids, environment, pc, err, snapshot, work, daily_stats,
          header_ids, tomorrow_lists, today_lists, blocks_after, deleted,
          lookups, faults>>

\* -------------------------------------------------------- the Notion store
IsTodo(b) == b.type = "to_do"

Ids(bs) == {bs[k].id : k \in 1..Len(bs)}

\* PATCH /blocks/{id} {"archived": true}
StoreDelete(d, id) == SelectSeq(d, LAMBDA b : b.id # id)

\* PATCH /blocks/{id} {"to_do": {"checked": checked}}
StoreSetChecked(d, id, checked) ==
  [k \in 1..Len(d) |-> IF d[k].id = id THEN [d[k] EXCEPT !.checked = checked]
                       ELSE d[k]]

\* The new children with the ids the store gives them, first .. first+len-1.
WithIds(new_blocks, first) ==
  [k \in 1..Len(new_blocks) |-> [new_blocks[k] EXCEPT !.id = first + k - 1]]

\* PATCH /blocks/{parent}/children {"children": ..., "after": after_block_id}
StoreInsertAfter(d, after_block_id, new_blocks, first) ==
  LET k == CHOOSE j \in 1..Len(d) : d[j].id = after_block_id
  IN SubSeq(d, 1, k) \o WithIds(new_blocks, first) \o SubSeq(d, k + 1, Len(d))

\* How one HTTP call can end: a 2xx response, an error response (resp.ok false),
\* or requests raising a transport exception.
CallOutcomes == {"ok", "http", "exc"}

\* How a title search can end: a database with that title, none, an error
\* response, a transport exception.
SearchOutcomes == {"found", "absent", "http", "exc"}

\* The outcomes the environment of this run allows.
Calls == IF chaos THEN CallOutcomes ELSE {"ok"}
Searches == IF chaos THEN SearchOutcomes ELSE {"found", "absent"}

\* ---------------------------------------------------------- the log stores
\* What an HTTP outcome makes the wrapper raise: SystemExit on an error
\* response (main.py:34-35, 70-71), the transport exception of requests otherwise.
Raised(o) ==
  CASE o = "http" -> "SystemExit"
    [] o = "exc" -> "Exception"
    [] OTHER -> "none"

\* ensure_done_db_id / ensure_daily_comp_db_id on global `dbid`, when the search,
\* if one is issued, ends as `r` and a database found has id `found`.
ensure_db_id(dbid, found, r) ==
  IF dbid # NoDb
    THEN [id |-> dbid, searched |-> FALSE, raised |-> "none", at |-> "none"]
  ELSE IF r \in {"http", "exc"}
    THEN [id |-> dbid, searched |-> TRUE, raised |-> Raised(r), at |-> "lookup"]
  ELSE [id |-> IF r = "found" THEN found ELSE NoDb, searched |-> TRUE,
        raised |-> "none", at |-> "none"]

\* create_page_in_db behind an ensure_*: the global afterwards, whether a search
\* was issued, whether the record was written, what was raised and by which
\* call ("lookup": the title search, "write": the page creation).
LogTo(dbid, found, r, o) ==
  LET e == ensure_db_id(dbid, found, r)
  IN IF e.raised # "none" \/ e.id = NoDb
       THEN [id |-> e.id, searched |-> e.searched, wrote |-> FALSE,
             raised |-> e.raised, at |-> e.at]
     ELSE [id |-> e.id, searched |-> e.searched, wrote |-> o = "ok",
           raised |-> Raised(o), at |-> IF o = "ok" THEN "none" ELSE "write"]

TaskText == <<"T", "a", "s", "k">>

\* The properties log_done_item sends: Name is task_text or "Task".
DoneRecord(task_text) ==
  [Name |-> IF task_text = <<>> THEN TaskText ELSE task_text, Date |-> "today"]

\* A Done record with a history field: the id of the block it archives.
Archived(b) == [rec |-> DoneRecord(rich_text_to_plain(b)), of |-> b.id]

\* The properties log_daily_completion sends: State is "completed/total".
DailyRecord(completed, total) ==
  [State |-> <<completed, "/", total>>, Date |-> "today"]

\* log_done_item
log_done_item(dbid, r, o) == LogTo(dbid, "done_db", r, o)

\* log_daily_completion
log_daily_completion(dbid, r, o) == LogTo(dbid, "daily_db", r, o)

\* -------------------------------------------------------------- documents
\* The kinds of non-header block a document starts with: an unchecked and a
\* checked to_do with text, an unchecked to_do with no text, an empty paragraph.
ItemKinds == {"u", "c", "p", "e"}

Canonical == <<"daily", "today", "tomorrow", "backlog">>

HeaderBlock(section, id) ==
  CASE section = "daily" -> Block(id, "heading_1", DailyName, FALSE, NoId)
    [] section = "today" -> Block(id, "heading_2", TodayName \o <<":">>, FALSE, NoId)
    [] section = "tomorrow" ->
         Block(id, "paragraph", TomorrowName \o <<":">>, FALSE, NoId)
    [] section = "backlog" ->
         Block(id, "paragraph", BacklogName \o <<":", " ">>, FALSE, NoId)

ItemBlock(kind, id) ==
  CASE kind = "u" -> Block(id, "to_do", <<"a">>, FALSE, NoId)
    [] kind = "c" -> Block(id, "to_do", <<"a">>, TRUE, NoId)
    [] kind = "p" -> Block(id, "to_do", <<>>, FALSE, NoId)
    [] kind = "e" -> Block(id, "paragraph", <<" ">>, FALSE, NoId)

\* A document from a sequence of section names and item kinds; ids are positions.
MkDoc(syms) ==
  [k \in 1..Len(syms) |->
     IF syms[k] \in Sections THEN HeaderBlock(syms[k], k) ELSE ItemBlock(syms[k], k)]

ItemSeqs(n) == UNION {[1..k -> ItemKinds] : k \in 0..n}

\* The headers of `layout` in that order, each followed by items, at most
\* `budget` items in all.
RECURSIVE Fill(_, _)
Fill(layout, budget) ==
  IF layout = <<>> THEN {<<>>}
  ELSE UNION {{<<Head(layout)>> \o c \o rest :
                 rest \in Fill(Tail(layout), budget - Len(c))} :
              c \in ItemSeqs(budget)}

CanonLayouts ==
  {SelectSeq(Canonical, LAMBDA x : x \in S) : S \in SUBSET Sections}

\* Every order of every set of headers that holds Today and Backlog.
PermLayouts ==
  {f \in UNION {[1..k -> Sections] : k \in 2..4} :
     /\ \A i, j \in DOMAIN f : i # j => f[i] # f[j]
     /\ \E i \in DOMAIN f : f[i] = "today"
     /\ \E i \in DOMAIN f : f[i] = "backlog"}

InitDocs ==
  {MkDoc(s) : s \in UNION {Fill(l, MaxItems) : l \in CanonLayouts}}
  \cup {MkDoc(s) : s \in UNION {Fill(l, MaxPermItems) : l \in PermLayouts}}

\* ------------------------------------------------------------------- Init
InitRun(d) ==
  /\ doc = d
  /\ doc0 = d
  /\ nextId = Len(d) + 1
  /\ doneLog = <<>>
  /\ dailyLog = <<>>
  /\ DONE_DB_ID = envDone
  /\ DAILY_COMP_DB_ID = envDaily
  /\ err = "none"
  /\ blocks = <<>>
  /\ parts = partition_by_sections(<<>>)
  /\ work = <<>>
  /\ daily_total = 0
  /\ daily_completed = 0
  /\ today_header = NoId
  /\ backlog_header = NoId
  /\ to_append_today = <<>>
  /\ to_delete_tomorrow_ids = <<>>
  /\ to_append = <<>>
  /\ to_delete_ids = <<>>
  /\ blocks_after = <<>>
  /\ deleted = <<>>
  /\ lookups = [done |-> 0, daily |-> 0]
  /\ faults = FALSE

NoQuery ==
  /\ qblocks = <<>>
  /\ qsection = "none"
  /\ qrange = <<0, 0>>
  /\ qparts = partition_by_sections(<<>>)
  /\ qheader = FALSE

\* The environment variables are both set or both unset.
InitEnv ==
  \E e \in {<<NoDb, NoDb>>, <<"done_db", "daily_db">>} :
    envDone = e[1] /\ envDaily = e[2]

Init ==
  /\ InitEnv
  /\ run = 1
  /\ chaos = TRUE
  /\ NoQuery
  /\ pc = "get_page"
  /\ \E d \in InitDocs : InitRun(d)

\* ---------------------------------------------------------------- actions
Todos(bs) == SelectSeq(bs, IsTodo)

\* The process dies of a failed gateway call (SystemExit or an uncaught
\* exception); `why` names the call.
Die(why) ==
  /\ pc' = "aborted"
  /\ err' = why
  /\ faults' = TRUE

\* A block or page call failed.
Fail == Die("gateway")

NoteLookup(which, l) ==
  lookups' = IF l.searched THEN [lookups EXCEPT ![which] = @ + 1] ELSE lookups

\* main(): get_page(PAGE_ID)
GetPage ==
  /\ pc = "get_page"
  /\ \E o \in Calls :
       IF o = "ok" THEN pc' = "ensure_done" /\ UNCHANGED <<err, faults>> ELSE Fail
  /\ UNCHANGED <<store, dbids, environment, snapshot, work, daily_stats,
                 header_ids, tomorrow_lists, today_lists, blocks_after, deleted,
                 lookups>>

\* main(): try: ensure_done_db_id() ...
EnsureDone ==
  /\ pc = "ensure_done"
  /\ \E r \in Searches :
       LET e == ensure_db_id(DONE_DB_ID, "done_db", r)
       IN /\ DONE_DB_ID' = e.id
          /\ NoteLookup("done", e)
          /\ CASE e.raised = "SystemExit" -> Die("done_lookup")
               [] e.raised = "Exception" ->
                    pc' = "fetch" /\ faults' = TRUE /\ UNCHANGED err
               [] OTHER -> pc' = "ensure_daily" /\ UNCHANGED <<err, faults>>
  /\ UNCHANGED <<store, DAILY_COMP_DB_ID, environment, snapshot, work,
                 daily_stats, header_ids, tomorrow_lists, today_lists,
                 blocks_after, deleted>>

\* main(): ... ensure_daily_comp_db_id() except Exception
EnsureDaily ==
  /\ pc = "ensure_daily"
  /\ \E r \in Searches :
       LET e == ensure_db_id(DAILY_COMP_DB_ID, "daily_db", r)
       IN /\ DAILY_COMP_DB_ID' = e.id
          /\ NoteLookup("daily", e)
          /\ CASE e.raised = "SystemExit" -> Die("daily_lookup")
               [] e.raised = "Exception" ->
                    pc' = "fetch" /\ faults' = TRUE /\ UNCHANGED err
               [] OTHER -> pc' = "fetch" /\ UNCHANGED <<err, faults>>
  /\ UNCHANGED <<store, DONE_DB_ID, environment, snapshot, work, daily_stats,
                 header_ids, tomorrow_lists, today_lists, blocks_after, deleted>>

\* cleanup_todo_page: blocks = get_all_children(page_id); parts = ...
Fetch ==
  /\ pc = "fetch"
  /\ \E o \in Calls :
       IF o = "ok"
       THEN /\ blocks' = doc
            /\ parts' = partition_by_sections(doc)
            /\ work' = Todos(partition_by_sections(doc).daily)
            /\ pc' = "daily"
            /\ UNCHANGED <<err, faults>>
       ELSE Fail /\ UNCHANGED <<snapshot, work>>
  /\ daily_total' = 0
  /\ daily_completed' = 0
  /\ UNCHANGED <<store, dbids, environment, header_ids, tomorrow_lists,
                 today_lists, blocks_after, deleted, lookups>>

\* A Daily pass that counts every item as completed.
daily_count_all(b) == <<daily_total + 1, daily_completed + 1>>

\* What one pass of the Daily loop leaves in <<daily_total, daily_completed>>.
daily_count(b) ==
  <<daily_total + 1, IF b.checked THEN daily_completed + 1 ELSE daily_completed>>

\* One pass of "for b in daily_blocks" over a to_do block.
DailyStep ==
  /\ pc = "daily"
  /\ work # <<>>
  /\ LET b == Head(work)
     IN /\ daily_total' = daily_count(b)[1]
        /\ daily_completed' = daily_count(b)[2]
        /\ \E o \in Calls :
             IF o = "ok" /\ b.id \in Ids(doc)
             THEN /\ doc' = StoreSetChecked(doc, b.id, FALSE)
                  /\ work' = Tail(work)
                  /\ UNCHANGED <<pc, err, faults>>
             ELSE Fail /\ UNCHANGED <<doc, work>>
  /\ UNCHANGED <<nextId, doneLog, dailyLog, dbids, environment, snapshot,
                 header_ids, tomorrow_lists, today_lists, blocks_after, deleted,
                 lookups>>

\* if daily_total > 0: try: log_daily_completion(...) except Exception
DailyLog ==
  /\ pc = "daily"
  /\ work = <<>>
  /\ IF daily_total > 0
     THEN \E r \in Searches, o \in Calls :
            LET l == log_daily_completion(DAILY_COMP_DB_ID, r, o)
            IN /\ DAILY_COMP_DB_ID' = l.id
               /\ NoteLookup("daily", l)
               /\ dailyLog' = IF l.wrote
                              THEN Append(dailyLog,
                                          DailyRecord(daily_completed, daily_total))
                              ELSE dailyLog
               /\ IF l.raised = "SystemExit" THEN Die("daily_" \o l.at)
                  ELSE /\ pc' = "headers"
                       /\ faults' = (faults \/ l.raised = "Exception")
                       /\ UNCHANGED err
     ELSE /\ pc' = "headers"
          /\ UNCHANGED <<DAILY_COMP_DB_ID, lookups, dailyLog, err, faults>>
  /\ UNCHANGED <<doc, nextId, doneLog, DONE_DB_ID, environment, snapshot, work,
                 daily_stats, header_ids, tomorrow_lists, today_lists,
                 blocks_after, deleted>>

\* A header check that forgets the Backlog header.
header_error_today_only(today_id, backlog_id) ==
  IF today_id = NoId THEN "missing_today" ELSE "none"

\* The two "if not ..._header: raise SystemExit": which header the error names.
header_error(today_id, backlog_id) ==
  IF today_id = NoId THEN "missing_today"
  ELSE IF backlog_id = NoId THEN "missing_backlog"
  ELSE "none"

\* The header lookups and the header check.
HeaderCheck ==
  /\ pc = "headers"
  /\ today_header' = section_header_id(blocks, "today")
  /\ backlog_header' = section_header_id(blocks, "backlog")
  /\ LET e == header_error(section_header_id(blocks, "today"),
                            section_header_id(blocks, "backlog"))
     IN IF e # "none"
        THEN pc' = "aborted" /\ err' = e /\ UNCHANGED work
        ELSE pc' = "tomorrow" /\ work' = Todos(parts.tomorrow) /\ UNCHANGED err
  /\ to_append_today' = <<>>
  /\ to_delete_tomorrow_ids' = <<>>
  /\ UNCHANGED <<store, dbids, environment, snapshot, daily_stats, today_lists,
                 blocks_after, deleted, lookups, faults>>

\* A Tomorrow pass that marks the block for deletion twice.
tomorrow_pass_twice(b) ==
  <<IF b.checked THEN to_append_today
    ELSE Append(to_append_today, clone_todo_block(b)),
    Append(Append(to_delete_tomorrow_ids, b.id), b.id)>>

\* What one pass of the Tomorrow loop leaves in <<to_append_today,
\* to_delete_tomorrow_ids>>: an unchecked block is cloned, every block is
\* marked for deletion.
tomorrow_pass(b) ==
  <<IF b.checked THEN to_append_today
    ELSE Append(to_append_today, clone_todo_block(b)),
    Append(to_delete_tomorrow_ids, b.id)>>

\* A Today pass that copies an unchecked block and forgets to delete it.
today_pass_keeps(b) ==
  <<IF b.checked THEN to_append ELSE Append(to_append, clone_todo_block(b)),
    IF b.checked THEN Append(to_delete_ids, b.id) ELSE to_delete_ids>>

\* What one pass of the Today loop leaves in <<to_append, to_delete_ids>>.
today_pass(b) ==
  <<IF b.checked THEN to_append ELSE Append(to_append, clone_todo_block(b)),
    Append(to_delete_ids, b.id)>>

\* The Today loop run over a freshly fetched partition instead of `parts`.
EnterTodayFresh ==
  /\ pc' = "today"
  /\ work' = Todos(partition_by_sections(doc).today)

\* today_blocks = parts["today"], then the "for b in today_blocks" loop.
EnterToday ==
  /\ pc' = "today"
  /\ work' = Todos(parts.today)

\* A Backlog loop that takes every to_do, checked or not.
EnterBacklogAll ==
  LET w == SelectSeq(parts.backlog, IsTodo)
  IN IF w # <<>> THEN pc' = "backlog" /\ work' = w ELSE EnterToday

\* backlog_blocks = parts["backlog"], then the loop over its checked to_dos.
EnterBacklog ==
  LET w == SelectSeq(parts.backlog, LAMBDA b : IsTodo(b) /\ b.checked)
  IN IF w # <<>> THEN pc' = "backlog" /\ work' = w ELSE EnterToday

\* One pass of "for b in tomorrow_blocks" over a to_do block.
TomorrowStep ==
  /\ pc = "tomorrow"
  /\ work # <<>>
  /\ LET b == Head(work)
     IN IF b.checked
        THEN \E r \in Searches, o \in Calls :
               LET l == log_done_item(DONE_DB_ID, r, o)
               IN /\ DONE_DB_ID' = l.id
                  /\ NoteLookup("done", l)
                  /\ doneLog' = IF l.wrote
                                THEN Append(doneLog, Archived(b))
                                ELSE doneLog
                  /\ IF l.raised = "SystemExit"
                     THEN Die("done_" \o l.at) /\ UNCHANGED <<work, tomorrow_lists>>
                     ELSE /\ to_append_today' = tomorrow_pass(b)[1]
                          /\ to_delete_tomorrow_ids' = tomorrow_pass(b)[2]
                          /\ work' = Tail(work)
                          /\ faults' = (faults \/ l.raised = "Exception")
                          /\ UNCHANGED <<pc, err>>
        ELSE /\ to_append_today' = tomorrow_pass(b)[1]
             /\ to_delete_tomorrow_ids' = tomorrow_pass(b)[2]
             /\ work' = Tail(work)
             /\ UNCHANGED <<pc, err, faults, DONE_DB_ID, lookups, doneLog>>
  /\ UNCHANGED <<doc, nextId, dailyLog, DAILY_COMP_DB_ID, environment, snapshot,
                 daily_stats, header_ids, today_lists, blocks_after, deleted>>

\* The Tomorrow step going on to its deletes without the insert into Today.
AppendTodayDropped ==
  /\ pc = "tomorrow"
  /\ work = <<>>
  /\ IF to_delete_tomorrow_ids # <<>>
     THEN pc' = "delete_tomorrow" /\ work' = to_delete_tomorrow_ids
     ELSE EnterBacklog
  /\ UNCHANGED <<store, err, faults, dbids, environment, snapshot, daily_stats,
                 header_ids, tomorrow_lists, today_lists, blocks_after, deleted,
                 lookups>>

\* if to_append_today: append_blocks_after(page_id, today_anchor, to_append_today)
AppendToday ==
  /\ pc = "tomorrow"
  /\ work = <<>>
  /\ LET go == IF to_delete_tomorrow_ids # <<>>
               THEN pc' = "delete_tomorrow" /\ work' = to_delete_tomorrow_ids
               ELSE EnterBacklog
     IN IF to_append_today # <<>>
        THEN \E o \in Calls :
               IF o = "ok" /\ today_header \in Ids(doc)
               THEN /\ doc' = StoreInsertAfter(doc, today_header, to_append_today,
                                               nextId)
                    /\ nextId' = nextId + Len(to_append_today)
                    /\ go
                    /\ UNCHANGED <<err, faults>>
               ELSE Fail /\ UNCHANGED <<doc, nextId, work>>
        ELSE go /\ UNCHANGED <<doc, nextId, err, faults>>
  /\ UNCHANGED <<doneLog, dailyLog, dbids, environment, snapshot, daily_stats,
                 header_ids, tomorrow_lists, today_lists, blocks_after, deleted,
                 lookups>>

\* One pass of "for bid in to_delete_tomorrow_ids: delete_block(bid)".
DeleteTomorrowStep ==
  /\ pc = "delete_tomorrow"
  /\ work # <<>>
  /\ \E o \in Calls :
       IF o = "ok" /\ Head(work) \in Ids(doc)
       THEN /\ doc' = StoreDelete(doc, Head(work))
            /\ deleted' = Append(deleted, Head(work))
            /\ IF Tail(work) = <<>> THEN EnterBacklog
               ELSE work' = Tail(work) /\ UNCHANGED pc
            /\ UNCHANGED <<err, faults>>
       ELSE Fail /\ UNCHANGED <<doc, deleted, work>>
  /\ UNCHANGED <<nextId, doneLog, dailyLog, dbids, environment, snapshot,
                 daily_stats, header_ids, tomorrow_lists, today_lists,
                 blocks_after, lookups>>

\* One pass of "for b in backlog_blocks" over a checked to_do: log, then delete.
BacklogStep ==
  /\ pc = "backlog"
  /\ work # <<>>
  /\ LET b == Head(work)
     IN \E r \in Searches, o \in Calls, od \in Calls :
          LET l == log_done_item(DONE_DB_ID, r, o)
          IN /\ DONE_DB_ID' = l.id
             /\ NoteLookup("done", l)
             /\ doneLog' = IF l.wrote
                           THEN Append(doneLog, Archived(b))
                           ELSE doneLog
             /\ IF l.raised # "SystemExit" /\ od = "ok" /\ b.id \in Ids(doc)
                THEN /\ doc' = StoreDelete(doc, b.id)
                     /\ deleted' = Append(deleted, b.id)
                     /\ IF Tail(work) = <<>> THEN EnterToday
                        ELSE work' = Tail(work) /\ UNCHANGED pc
                     /\ faults' = (faults \/ l.raised = "Exception")
                     /\ UNCHANGED err
                ELSE /\ IF l.raised = "SystemExit" THEN Die("done_" \o l.at)
                        ELSE Fail
                     /\ UNCHANGED <<doc, deleted, work>>
  /\ UNCHANGED <<nextId, dailyLog, DAILY_COMP_DB_ID, environment, snapshot,
                 daily_stats, header_ids, tomorrow_lists, today_lists,
                 blocks_after>>

\* One pass of "for b in today_blocks" over a to_do block.
TodayStep ==
  /\ pc = "today"
  /\ work # <<>>
  /\ LET b == Head(work)
     IN IF b.checked
        THEN \E r \in Searches, o \in Calls :
               LET l == log_done_item(DONE_DB_ID, r, o)
               IN /\ DONE_DB_ID' = l.id
                  /\ NoteLookup("done", l)
                  /\ doneLog' = IF l.wrote
                                THEN Append(doneLog, Archived(b))
                                ELSE doneLog
                  /\ IF l.raised = "SystemExit"
                     THEN Die("done_" \o l.at) /\ UNCHANGED <<work, today_lists>>
                     ELSE /\ to_append' = today_pass(b)[1]
                          /\ to_delete_ids' = today_pass(b)[2]
                          /\ work' = Tail(work)
                          /\ faults' = (faults \/ l.raised = "Exception")
                          /\ UNCHANGED <<pc, err>>
        ELSE /\ to_append' = today_pass(b)[1]
             /\ to_delete_ids' = today_pass(b)[2]
             /\ work' = Tail(work)
             /\ UNCHANGED <<pc, err, faults, DONE_DB_ID, lookups, doneLog>>
  /\ UNCHANGED <<doc, nextId, dailyLog, DAILY_COMP_DB_ID, environment, snapshot,
                 daily_stats, header_ids, tomorrow_lists, blocks_after, deleted>>

\* if to_append: blocks = get_all_children(page_id); backlog_header = ... or
\* backlog_header; append_blocks_after(page_id, backlog_header, to_append)
AppendBacklog ==
  /\ pc = "today"
  /\ work = <<>>
  /\ LET go == IF to_delete_ids # <<>>
               THEN pc' = "delete_today" /\ work' = to_delete_ids
               ELSE pc' = "repair" /\ work' = <<>>
         found == section_header_id(doc, "backlog")
         anchor == IF found # NoId THEN found ELSE backlog_header
     IN IF to_append # <<>>
        THEN \E of \in Calls, o \in Calls :
               IF of = "ok" /\ o = "ok" /\ anchor \in Ids(doc)
               THEN /\ blocks' = doc
                    /\ backlog_header' = anchor
                    /\ doc' = StoreInsertAfter(doc, anchor, to_append, nextId)
                    /\ nextId' = nextId + Len(to_append)
                    /\ go
                    /\ UNCHANGED <<err, faults>>
               ELSE /\ Fail
                    /\ blocks' = IF of = "ok" THEN doc ELSE blocks
                    /\ backlog_header' = IF of = "ok" THEN anchor ELSE backlog_header
                    /\ UNCHANGED <<doc, nextId, work>>
        ELSE go /\ UNCHANGED <<doc, nextId, err, faults, blocks, backlog_header>>
  /\ UNCHANGED <<doneLog, dailyLog, dbids, environment, parts, daily_stats,
                 today_header, tomorrow_lists, today_lists, blocks_after, deleted,
                 lookups>>

\* One pass of "for bid in to_delete_ids: delete_block(bid)".
DeleteTodayStep ==
  /\ pc = "delete_today"
  /\ work # <<>>
  /\ \E o \in Calls :
       IF o = "ok" /\ Head(work) \in Ids(doc)
       THEN /\ doc' = StoreDelete(doc, Head(work))
            /\ deleted' = Append(deleted, Head(work))
            /\ IF Tail(work) = <<>> THEN pc' = "repair" ELSE UNCHANGED pc
            /\ work' = Tail(work)
            /\ UNCHANGED <<err, faults>>
       ELSE Fail /\ UNCHANGED <<doc, deleted, work>>
  /\ UNCHANGED <<nextId, doneLog, dailyLog, dbids, environment, snapshot,
                 daily_stats, header_ids, tomorrow_lists, today_lists,
                 blocks_after, lookups>>

\* A collecting loop that takes every paragraph of the slice.
ids_of_paragraphs(bs, start, end) ==
  LET hit == SelectSeq(Slice(bs, start, end), LAMBDA b : b.type = "paragraph")
  IN [k \in 1..Len(hit) |-> hit[k].id]

\* remove_empty_paragraphs_in_slice, first loop: the ids of the empty
\* paragraphs among blocks[start:end].
ids_to_delete(bs, start, end) ==
  LET hit == SelectSeq(Slice(bs, start, end), is_empty_paragraph)
  IN [k \in 1..Len(hit) |-> hit[k].id]

\* blocks_after_backlog_append = get_all_children(page_id); the Backlog range;
\* the collecting loop of remove_empty_paragraphs_in_slice.
RepairFetch ==
  /\ pc = "repair"
  /\ \E o \in Calls :
       IF o = "ok"
       THEN LET rng == get_section_range(doc, "backlog")
                ids == IF rng[2] > rng[1] THEN ids_to_delete(doc, rng[1], rng[2])
                       ELSE <<>>
            IN /\ blocks_after' = doc
               /\ work' = ids
               /\ pc' = IF ids # <<>> THEN "repair_delete" ELSE "placeholder"
               /\ UNCHANGED <<err, faults>>
       ELSE Fail /\ UNCHANGED <<blocks_after, work>>
  /\ UNCHANGED <<store, dbids, environment, snapshot, daily_stats, header_ids,
                 tomorrow_lists, today_lists, deleted, lookups>>

\* One pass of "for bid in ids_to_delete: delete_block(bid)".
RepairDeleteStep ==
  /\ pc = "repair_delete"
  /\ work # <<>>
  /\ \E o \in Calls :
       IF o = "ok" /\ Head(work) \in Ids(doc)
       THEN /\ doc' = StoreDelete(doc, Head(work))
            /\ deleted' = Append(deleted, Head(work))
            /\ IF Tail(work) = <<>> THEN pc' = "placeholder" ELSE UNCHANGED pc
            /\ work' = Tail(work)
            /\ UNCHANGED <<err, faults>>
       ELSE Fail /\ UNCHANGED <<doc, deleted, work>>
  /\ UNCHANGED <<nextId, doneLog, dailyLog, dbids, environment, snapshot,
                 daily_stats, header_ids, tomorrow_lists, today_lists,
                 blocks_after, lookups>>

\* try: blocks_after = get_all_children(page_id); parts_after = ...
\* An exception here is re-raised as SystemExit (main.py:439-440).
PlaceholderFetch ==
  /\ pc = "placeholder"
  /\ \E o \in Calls :
       IF o = "ok"
       THEN blocks_after' = doc /\ pc' = "placeholder_today"
            /\ UNCHANGED <<err, faults>>
       ELSE /\ pc' = "aborted"
            /\ err' = "placeholder"
            /\ faults' = TRUE
            /\ UNCHANGED blocks_after
  /\ UNCHANGED <<store, dbids, environment, snapshot, work, daily_stats,
                 header_ids, tomorrow_lists, today_lists, deleted, lookups>>

\* A check that takes any block of the section for a to_do.
has_block(bs, section) == partition_by_sections(bs)[section] # <<>>

\* has_<section>_todo of main.py:399, 413, 426, on parts_after.
has_todo(bs, section) ==
  \E k \in DOMAIN partition_by_sections(bs)[section] :
    partition_by_sections(bs)[section][k].type = "to_do"

\* A placeholder check made on the page as it is now, not on blocks_after.
EnsurePlaceholderFresh(section, next) ==
  LET header_id == section_header_id(doc, section)
  IN IF ~has_todo(doc, section) /\ header_id # NoId
     THEN \E o \in Calls :
            IF o = "ok"
            THEN /\ doc' = StoreInsertAfter(doc, header_id, <<PlaceholderBlock>>,
                                            nextId)
                 /\ nextId' = nextId + 1
                 /\ pc' = next
                 /\ UNCHANGED <<err, faults>>
            ELSE /\ pc' = "aborted"
                 /\ err' = IF o = "exc" THEN "placeholder" ELSE "gateway"
                 /\ faults' = TRUE
                 /\ UNCHANGED <<doc, nextId>>
     ELSE pc' = next /\ UNCHANGED <<doc, nextId, err, faults>>

\* One "if not has_..._todo: header_id = ...; if header_id: append_blocks_after"
\* of the placeholder block, for `section`, followed by position `next`.
EnsurePlaceholder(section, next) ==
  LET header_id == section_header_id(blocks_after, section)
  IN IF ~has_todo(blocks_after, section) /\ header_id # NoId
     THEN \E o \in Calls :
            IF o = "ok" /\ header_id \in Ids(doc)
            THEN /\ doc' = StoreInsertAfter(doc, header_id, <<PlaceholderBlock>>,
                                            nextId)
                 /\ nextId' = nextId + 1
                 /\ pc' = next
                 /\ UNCHANGED <<err, faults>>
            ELSE /\ pc' = "aborted"
                 /\ err' = IF o = "exc" THEN "placeholder" ELSE "gateway"
                 /\ faults' = TRUE
                 /\ UNCHANGED <<doc, nextId>>
     ELSE pc' = next /\ UNCHANGED <<doc, nextId, err, faults>>

PlaceholderRest ==
  UNCHANGED <<doneLog, dailyLog, dbids, environment, snapshot, work, daily_stats,
              header_ids, tomorrow_lists, today_lists, blocks_after, deleted,
              lookups>>

PlaceholderToday ==
  pc = "placeholder_today" /\ EnsurePlaceholder("today", "placeholder_tomorrow")
  /\ PlaceholderRest

PlaceholderTomorrow ==
  pc = "placeholder_tomorrow" /\ EnsurePlaceholder("tomorrow", "placeholder_daily")
  /\ PlaceholderRest

PlaceholderDaily ==
  pc = "placeholder_daily" /\ EnsurePlaceholder("daily", "done")
  /\ PlaceholderRest

Next ==
  \/ GetPage
  \/ EnsureDone
  \/ EnsureDaily
  \/ Fetch
  \/ DailyStep
  \/ DailyLog
  \/ HeaderCheck
  \/ TomorrowStep
  \/ AppendToday
  \/ DeleteTomorrowStep
  \/ BacklogStep
  \/ TodayStep
  \/ AppendBacklog
  \/ DeleteTodayStep
  \/ RepairFetch
  \/ RepairDeleteStep
  \/ PlaceholderFetch
  \/ PlaceholderToday
  \/ PlaceholderTomorrow
  \/ PlaceholderDaily

Spec == Init /\ [][Next]_vars

\* ------------------------------------------------------------ a second run
\* The script is started again on the page the first run left: a new process,
\* so the globals are read from the environment again. The logs and the
\* histories are those of the new run.
Restart ==
  /\ pc = "done"
  /\ run = 1
  /\ run' = 2
  /\ doc' = [k \in 1..Len(doc) |-> [doc[k] EXCEPT !.src = NoId]]
  /\ doc0' = [k \in 1..Len(doc) |-> [doc[k] EXCEPT !.src = NoId]]
  /\ doneLog' = <<>>
  /\ dailyLog' = <<>>
  /\ DONE_DB_ID' = envDone
  /\ DAILY_COMP_DB_ID' = envDaily
  /\ pc' = "get_page"
  /\ blocks' = <<>>
  /\ parts' = partition_by_sections(<<>>)
  /\ daily_total' = 0
  /\ daily_completed' = 0
  /\ today_header' = NoId
  /\ backlog_header' = NoId
  /\ to_append_today' = <<>>
  /\ to_delete_tomorrow_ids' = <<>>
  /\ to_append' = <<>>
  /\ to_delete_ids' = <<>>
  /\ blocks_after' = <<>>
  /\ deleted' = <<>>
  /\ lookups' = [done |-> 0, daily |-> 0]
  /\ faults' = FALSE
  /\ UNCHANGED <<nextId, envDone, envDaily, chaos, query, err, work>>

\* Runs in which every gateway call succeeds, on documents in canonical order.
InitTwice ==
  /\ InitEnv
  /\ run = 1
  /\ chaos = FALSE
  /\ NoQuery
  /\ \E d \in {MkDoc(s) : s \in UNION {Fill(l, MaxItems) : l \in CanonLayouts}} :
       InitRun(d)
  /\ pc = "get_page"

NextTwice == Next \/ Restart

SpecTwice == InitTwice /\ [][NextTwice]_vars

\* ------------------------------------------------- the range functions alone
\* Block lists of headers and to_do items, headers in any order and repeated.
QuerySymbols == Sections \cup {"u"}

\* Headers at Daily=0, Today=4, Backlog=9, no Tomorrow, twelve blocks.
ExampleList ==
  MkDoc(<<"daily", "u", "u", "u", "today", "u", "u", "u", "u", "backlog",
          "u", "u">>)

QueryLists ==
  {MkDoc(s) : s \in UNION {[1..k -> QuerySymbols] : k \in 0..MaxLen}}
  \cup {ExampleList}

InitRange ==
  /\ qblocks \in QueryLists
  /\ qsection = "none"
  /\ qrange = <<0, 0>>
  /\ qparts = partition_by_sections(<<>>)
  /\ qheader = FALSE
  /\ envDone = NoDb
  /\ envDaily = NoDb
  /\ run = 1
  /\ chaos = FALSE
  /\ InitRun(<<>>)
  /\ pc = "query"

\* start, end = get_section_range(blocks, section_name)
AskRange ==
  /\ pc = "query"
  /\ \E section_name \in Sections :
       /\ qsection' = section_name
       /\ qrange' = get_section_range(qblocks, section_name)
  /\ UNCHANGED <<store, dbids, doc0, envDone, envDaily, run, chaos, qblocks,
                 qparts, qheader, pc, err, snapshot, work, daily_stats, header_ids,
                 tomorrow_lists, today_lists, blocks_after, deleted, lookups,
                 faults>>

\* parts = partition_by_sections(blocks)
AskPartition ==
  /\ pc = "query"
  /\ qparts' = partition_by_sections(qblocks)
  /\ qsection' = "all"
  /\ UNCHANGED <<store, dbids, doc0, envDone, envDaily, run, chaos, qblocks,
                 qrange, qheader, pc, err, snapshot, work, daily_stats,
                 header_ids, tomorrow_lists, today_lists, blocks_after, deleted,
                 lookups, faults>>

NextRange == AskRange \/ AskPartition

SpecRange == InitRange /\ [][NextRange]_vars

\* ------------------------------------------------- the header test alone
\* The block types handed to the header test.
HeaderQueryTypes == HeadingTypes \cup {"paragraph", "to_do", "bulleted_list_item"}

Spaces(k) == [i \in 1..k |-> " "]

\* "Today: (2/5)" and "Todayish" of the header-prefix examples.
TodayWithCount ==
  <<"T", "o", "d", "a", "y", ":", " ", "(", "2", "/", "5", ")">>
Todayish == <<"T", "o", "d", "a", "y", "i", "s", "h">>

QueryCores ==
  {DailyName, TodayName, TomorrowName, BacklogName,
   <<"t", "o", "d", "a", "y">>, <<"T", "O", "D", "A", "Y">>,
   <<"T", "o", "d", "a">>, <<"T", "o", "d", "a", ":", "y">>, <<>>}

QueryFronts == {Spaces(k) : k \in 0..MaxPad} \cup {<<"x">>, <<":">>, <<" ", "x">>}

QueryTails ==
  {<<>>, <<":">>, <<":", " ">>, <<":", ":">>, <<" ", ":">>, <<" ", "x">>,
   <<"i", "s", "h">>, <<":", " ", "(", "2", "/", "5", ")">>}

QueryTexts == {f \o c \o t : f \in QueryFronts, c \in QueryCores, t \in QueryTails}

InitHeader ==
  /\ \E type \in HeaderQueryTypes, text \in QueryTexts, checked \in BOOLEAN :
       /\ checked => type = "to_do"
       /\ qblocks = <<Block(1, type, text, checked, NoId)>>
  /\ qsection = "none"
  /\ qrange = <<0, 0>>
  /\ qparts = partition_by_sections(<<>>)
  /\ qheader = FALSE
  /\ envDone = NoDb
  /\ envDaily = NoDb
  /\ run = 1
  /\ chaos = FALSE
  /\ InitRun(<<>>)
  /\ pc = "query"

\* is_header_with_text(b, [section.capitalize()])
AskHeader ==
  /\ pc = "query"
  /\ \E section \in Sections :
       /\ qsection' = section
       /\ qheader' = is_header_with_text(qblocks[1], Capitalize(SectionChars(section)))
  /\ UNCHANGED <<store, dbids, doc0, envDone, envDaily, run, chaos, qblocks,
                 qrange, qparts, pc, err, snapshot, work, daily_stats,
                 header_ids, tomorrow_lists, today_lists, blocks_after, deleted,
                 lookups, faults>>

NextHeader == AskHeader

SpecHeader == InitHeader /\ [][NextHeader]_vars

\* ================================================================= claims
\* Vocabulary of the claims, stated on documents without the range functions.
SectionName(s) ==
  CASE s = "daily" -> DailyName
    [] s = "today" -> TodayName
    [] s = "tomorrow" -> TomorrowName
    [] s = "backlog" -> BacklogName

Prec(s) ==
  CASE s = "daily" -> 1 [] s = "today" -> 2 [] s = "tomorrow" -> 3
    [] s = "backlog" -> 4

IsHeaderOf(b, s) == is_header_with_text(b, SectionName(s))

HasHeader(d, s) == \E k \in DOMAIN d : IsHeaderOf(d[k], s)

\* Position (from 1) of the first header of s in d; 0 when there is none.
HeaderPos(d, s) ==
  IF HasHeader(d, s)
  THEN CHOOSE k \in DOMAIN d :
         IsHeaderOf(d[k], s) /\ \A j \in 1..(k - 1) : ~IsHeaderOf(d[j], s)
  ELSE 0

\* Position of the first block after the header of s that is a header of
\* another section; Len(d) + 1 when none follows.
PhysEnd(d, s) ==
  LET hp == HeaderPos(d, s)
      after == {k \in (hp + 1)..Len(d) :
                  \E t \in Sections \ {s} : IsHeaderOf(d[k], t)}
  IN IF after = {} THEN Len(d) + 1
     ELSE CHOOSE k \in after : \A j \in after : k <= j

\* The section as it lies on the page: the blocks after its header up to the
\* next header of another section.
PhysContent(d, s) ==
  IF HasHeader(d, s) THEN SubSeq(d, HeaderPos(d, s) + 1, PhysEnd(d, s) - 1)
  ELSE <<>>

\* Every header occurs once and the headers are in the order Daily, Today,
\* Tomorrow, Backlog.
CanonicalOrder(d) ==
  \A i, j \in DOMAIN d : \A s, t \in Sections :
    (i < j /\ IsHeaderOf(d[i], s) /\ IsHeaderOf(d[j], t)) => Prec(s) < Prec(t)

Range(q) == {q[k] : k \in DOMAIN q}

TodosOf(q) == {b \in Range(q) : IsTodo(b)}

TodosOfSeq(q) == SelectSeq(q, IsTodo)

\* The blocks of q that descend from block b of the starting document.
CopiesOf(b, q) == {c \in Range(q) : c.src = b.id}

\* The archive records written for block b, and the deletes accepted for it.
RecordsOf(b) == {k \in DOMAIN doneLog : doneLog[k].of = b.id}
DeletesOf(b) == {k \in DOMAIN deleted : deleted[k] = b.id}

IsPlaceholder(b) == IsTodo(b) /\ b.text = <<>> /\ ~b.checked

\* The run ended normally and no gateway call failed on the way.
Clean == pc = "done" /\ ~faults

\* The Done database id was known before the first item was archived: set in
\* the environment, or found by the search at process start.
DoneResolvedAtStart == DONE_DB_ID # NoDb /\ lookups.done <= 1

UncheckedTomorrow0 ==
  {b \in TodosOf(PhysContent(doc0, "tomorrow")) : ~b.checked}

NoUncheckedTomorrow == Clean /\ CanonicalOrder(doc0) /\ UncheckedTomorrow0 = {}

\* What C2 says of the unchecked Today items and of Today at the end.
C2_Demoted ==
  /\ \A b \in TodosOf(PhysContent(doc0, "today")) :
       /\ b.id \notin Ids(doc)
       /\ Cardinality(DeletesOf(b)) = 1
       /\ ~b.checked =>
            /\ Cardinality(CopiesOf(b, doc)) = 1
            /\ \A c \in CopiesOf(b, doc) :
                 /\ c \in Range(PhysContent(doc, "backlog"))
                 /\ c.id \notin Ids(doc0)
                 /\ IsTodo(c) /\ ~c.checked /\ c.text = b.text
       /\ b.checked => CopiesOf(b, doc) = {}
  /\ Cardinality(TodosOf(PhysContent(doc, "today"))) = 1
  /\ \A c \in TodosOf(PhysContent(doc, "today")) :
       IsPlaceholder(c) /\ c.id \notin Ids(doc0)

\* C2 as stated: after a clean run on a canonical document with no unchecked
\* Tomorrow item, every checked Today item is archived (one record) and deleted,
\* every unchecked one is deleted and has one new unchecked copy with its text in
\* Backlog, and Today holds exactly one item, an empty unchecked placeholder.
C2_TodayArchivedAndDemoted ==
  NoUncheckedTomorrow =>
    /\ C2_Demoted
    /\ \A b \in TodosOf(PhysContent(doc0, "today")) :
         b.checked => Cardinality(RecordsOf(b)) = 1

\* C2 amended: the same, except that a checked Today item has its one archive
\* record when the Done database id was known at the start, never more than one
\* record, and none when the id is still unknown at the end (log_done_item
\* returns without writing); the record carries the item's text.
C2_TodayDemotedArchivedIfResolved ==
  NoUncheckedTomorrow =>
    /\ C2_Demoted
    /\ \A b \in TodosOf(PhysContent(doc0, "today")) :
         /\ Cardinality(RecordsOf(b)) <= 1
         /\ ~b.checked => RecordsOf(b) = {}
         /\ (b.checked /\ DoneResolvedAtStart) => Cardinality(RecordsOf(b)) = 1
         /\ DONE_DB_ID = NoDb => RecordsOf(b) = {}
         /\ \A k \in RecordsOf(b) : doneLog[k].rec.Name = b.text

\* C2 witness: Today = [A unchecked, B checked], no Tomorrow, Done id set: at
\* the end B is archived, A's copy is in Backlog, Today holds a placeholder.
C2_Witness ==
  /\ Clean
  /\ doc0 = MkDoc(<<"today", "u", "c", "backlog">>)
  /\ envDone # NoDb
  /\ Len(doneLog) = 1 /\ doneLog[1].of = 3
  /\ Len(PhysContent(doc, "backlog")) = 1
  /\ PhysContent(doc, "backlog")[1].src = 2
  /\ Len(PhysContent(doc, "today")) = 1
  /\ IsPlaceholder(PhysContent(doc, "today")[1])

\* ---- C3
\* The Daily range of the starting document, by get_section_range.
DailyRange0 ==
  Slice(doc0, get_section_range(doc0, "daily")[1],
        get_section_range(doc0, "daily")[2])

TheBlock(d, id) == CHOOSE c \in Range(d) : c.id = id

Untouched(b) ==
  /\ b.id \in Ids(doc)
  /\ CopiesOf(b, doc) = {} /\ RecordsOf(b) = {} /\ DeletesOf(b) = {}

\* Left in place unchanged.
Kept(b) == Untouched(b) /\ TheBlock(doc, b.id) = b

\* Left in place, unchanged but for the reset of a Daily item's check mark.
KeptOrReset(b) ==
  /\ Untouched(b)
  /\ \/ TheBlock(doc, b.id) = b
     \/ b \in Range(DailyRange0) /\ TheBlock(doc, b.id) = [b EXCEPT !.checked = FALSE]

Gone(b) == b.id \notin Ids(doc) /\ Cardinality(DeletesOf(b)) = 1

\* Deleted with exactly one archive record.
ArchivedOnce(b) ==
  Gone(b) /\ CopiesOf(b, doc) = {} /\ Cardinality(RecordsOf(b)) = 1

\* A checked item deleted with one archive record, or with none when the Done
\* database id was not resolved.
ArchivedIfResolved(b) ==
  /\ Gone(b) /\ b.checked /\ CopiesOf(b, doc) = {}
  /\ Cardinality(RecordsOf(b)) <= 1
  /\ DoneResolvedAtStart => Cardinality(RecordsOf(b)) = 1
  /\ DONE_DB_ID = NoDb => RecordsOf(b) = {}

\* Deleted with exactly one unchecked copy.
MovedOnce(b) ==
  /\ Gone(b) /\ RecordsOf(b) = {}
  /\ Cardinality(CopiesOf(b, doc)) = 1
  /\ \A c \in CopiesOf(b, doc) : IsTodo(c) /\ ~c.checked /\ c.text = b.text

\* C3 as stated: after a clean run (headers in any order) every checklist item
\* of the starting document is left in place unchanged, or deleted with exactly
\* one archive record, or deleted with exactly one unchecked copy.
C3_Conservation ==
  Clean => \A b \in TodosOf(doc0) : Kept(b) \/ ArchivedOnce(b) \/ MovedOnce(b)

\* C3 amended: after a clean run (headers in any order) every checklist item of
\* the starting document is left in place (unchanged, but for a Daily item being
\* unchecked), or was checked and is deleted with at most one archive record
\* (exactly one when the Done database id was known at the start, none when it
\* is unresolved), or was unchecked and is deleted with exactly one unchecked
\* copy of the same text; every archive record and every copy belongs to one
\* such item.
C3_ConservationAmended ==
  Clean =>
    /\ \A b \in TodosOf(doc0) :
         KeptOrReset(b) \/ ArchivedIfResolved(b) \/ (~b.checked /\ MovedOnce(b))
    /\ \A k \in DOMAIN doneLog : doneLog[k].of \in Ids(TodosOfSeq(doc0))
    /\ \A c \in Range(doc) : c.src # NoId => c.src \in Ids(TodosOfSeq(doc0))

\* C3 witness: a clean run on a document whose headers are out of canonical
\* order that moved an item.
C3_Witness ==
  /\ Clean
  /\ ~CanonicalOrder(doc0)
  /\ \E b \in TodosOf(doc0) : MovedOnce(b)

\* ---- C4
\* C4 as stated: no run ends because the write of an archive record failed, and
\* a run that ends normally has deleted every checked item of the Tomorrow, Backlog
\* and Today slices.
C4_ArchiveFailureIsolated ==
  /\ err # "done_write"
  /\ pc = "done" =>
       \A s \in {"tomorrow", "backlog", "today"} :
         \A b \in TodosOf(partition_by_sections(doc0)[s]) :
           b.checked => b.id \notin Ids(doc)

\* ---- C5
\* C5 as stated: no run ends because the write of the cycle-outcome record
\* failed.
C5_DailyLogFailureIsolated == err # "daily_write"

\* ---- C6
MissingHeader0 == ~HasHeader(doc0, "today") \/ ~HasHeader(doc0, "backlog")

\* C6: when the Today or the Backlog header is missing, the run never gets
\* past the header check: no block is inserted or deleted and no archive record
\* is written, the page differs from the starting one only by Daily items being
\* unchecked, at most one cycle-outcome record exists, and a run that ends
\* without a gateway failure ends aborted, after the whole Daily reset, with the
\* error naming the missing header (Today first).
C6_MissingHeaderAborts ==
  MissingHeader0 =>
    /\ pc \in {"get_page", "ensure_done", "ensure_daily", "fetch", "daily",
               "headers", "aborted"}
    /\ deleted = <<>> /\ doneLog = <<>> /\ nextId = Len(doc0) + 1
    /\ Len(dailyLog) <= 1
    /\ Len(doc) = Len(doc0)
    /\ \A k \in DOMAIN doc :
         \/ doc[k] = doc0[k]
         \/ /\ doc0[k] \in TodosOf(DailyRange0)
            /\ doc[k] = [doc0[k] EXCEPT !.checked = FALSE]
    /\ (pc = "aborted" /\ ~faults) => err \in {"missing_today", "missing_backlog"}
    /\ err \in {"missing_today", "missing_backlog"} =>
         /\ pc = "aborted"
         /\ err = IF ~HasHeader(doc0, "today") THEN "missing_today"
                  ELSE "missing_backlog"
         /\ \A b \in TodosOf(DailyRange0) : ~TheBlock(doc, b.id).checked

\* C6 witness: a page with a Today header and no Backlog header, a checked
\* Daily item: aborted on the Backlog header with the item unchecked and the
\* outcome record written.
C6_Witness ==
  /\ pc = "aborted" /\ err = "missing_backlog"
  /\ HasHeader(doc0, "today")
  /\ \E b \in TodosOf(DailyRange0) : b.checked /\ ~TheBlock(doc, b.id).checked
  /\ Len(dailyLog) = 1

\* ---- C7
\* The Daily section of the starting document as it lies on the page.
DailyItems0 == TodosOf(PhysContent(doc0, "daily"))

DailyChecked0 == {b \in DailyItems0 : b.checked}

AfterDaily ==
  pc \notin {"get_page", "ensure_done", "ensure_daily", "fetch", "daily", "query"}

PlaceholderSections == {"today", "tomorrow", "daily"}

\* The blocks of the final page that the page did not hold after steps 1-6.
NewBlocks == {c \in Range(doc) : c.id \notin Ids(blocks_after)}

\* The new blocks that lie directly after the header of s.
ReceivedBy(s) ==
  {c \in NewBlocks : HeaderPos(doc, s) + 1 \in DOMAIN doc
                     /\ doc[HeaderPos(doc, s) + 1] = c}

\* The range of s after steps 1-6, by the fixed precedence of get_section_range.
RangeAfter(s) ==
  Slice(blocks_after, get_section_range(blocks_after, s)[1],
        get_section_range(blocks_after, s)[2])

AtLeastOneItem ==
  \A s \in PlaceholderSections :
    HasHeader(doc, s) => TodosOf(PhysContent(doc, s)) # {}

\* C8 as stated: after a run that ends normally each of Today, Tomorrow, Daily
\* whose header is present holds a checklist item before the next header that
\* physically follows; a section that physically held no checklist item after
\* steps 1-6 received exactly one empty unchecked item directly after its
\* header, and a section that held one or more received none.
C8_PlaceholderPhysical ==
  pc = "done" =>
    /\ AtLeastOneItem
    /\ \A s \in PlaceholderSections :
         HasHeader(doc, s) =>
           IF TodosOf(PhysContent(blocks_after, s)) = {}
           THEN Cardinality(ReceivedBy(s)) = 1
                /\ \A c \in ReceivedBy(s) : IsPlaceholder(c)
           ELSE ReceivedBy(s) = {}

\* C8 amended: after a run that ends normally on a page whose headers occur
\* once each in the order Daily, Today, Tomorrow, Backlog, each of Today,
\* Tomorrow, Daily whose header is present holds a checklist item before the
\* next header that physically follows; for every order, a section whose range by the fixed precedence
\* Daily < Today < Tomorrow < Backlog held no checklist item after steps 1-6
\* received exactly one empty unchecked item directly after its header, a
\* section whose range held one or more received none, and nothing else was
\* inserted; with the headers in canonical order the range is the section as it
\* lies on the page.
C8_PlaceholderByRange ==
  pc = "done" =>
    /\ CanonicalOrder(doc) => AtLeastOneItem
    /\ \A s \in PlaceholderSections :
         HasHeader(doc, s) =>
           IF TodosOf(RangeAfter(s)) = {}
           THEN Cardinality(ReceivedBy(s)) = 1
                /\ \A c \in ReceivedBy(s) : IsPlaceholder(c)
           ELSE ReceivedBy(s) = {}
    /\ NewBlocks = UNION {ReceivedBy(s) : s \in PlaceholderSections}
    /\ CanonicalOrder(blocks_after) =>
         \A s \in PlaceholderSections :
           RangeAfter(s) = PhysContent(blocks_after, s)

\* C8 witness: a run that ended normally in which one section received a
\* placeholder and another, holding an item, received none.
C8_Witness ==
  /\ pc = "done"
  /\ \E s, t \in PlaceholderSections :
       /\ HasHeader(doc, s) /\ HasHeader(doc, t)
       /\ TodosOf(RangeAfter(s)) = {} /\ Cardinality(ReceivedBy(s)) = 1
       /\ TodosOf(RangeAfter(t)) # {} /\ ReceivedBy(t) = {}

\* ---- C9
\* The positions (from 0) of the present headers later than s in the fixed
\* precedence.
LaterHeaderIdx(d, s) ==
  {HeaderPos(d, t) - 1 : t \in {u \in Sections : Prec(u) > Prec(s) /\ HasHeader(d, u)}}

\* C9: for every block list and every section asked for, the range starts at
\* the index of the first header of the section plus one and ends at the least
\* index of the present headers of the sections later in the precedence
\* Daily < Today < Tomorrow < Backlog, or at the list length when none is
\* present; the range of an absent section is empty; with headers at Daily=0,
\* Today=4, Backlog=9 of 12 blocks Today is [5,9), Backlog [10,12) and Tomorrow
\* empty.
C9_RangeByPrecedence ==
  qsection \in Sections =>
    /\ HasHeader(qblocks, qsection) =>
         /\ qrange[1] = (HeaderPos(qblocks, qsection) - 1) + 1
         /\ IF LaterHeaderIdx(qblocks, qsection) = {}
            THEN qrange[2] = Len(qblocks)
            ELSE /\ qrange[2] \in LaterHeaderIdx(qblocks, qsection)
                 /\ \A e \in LaterHeaderIdx(qblocks, qsection) : qrange[2] <= e
    /\ ~HasHeader(qblocks, qsection) => qrange[1] >= qrange[2]
    /\ qblocks = ExampleList =>
         /\ qsection = "today" => qrange = <<5, 9>>
         /\ qsection = "backlog" => qrange = <<10, Len(qblocks)>>
         /\ qsection = "tomorrow" => qrange[1] >= qrange[2]

\* C9 witness: the range of Today asked on the example list.
C9_Witness ==
  qblocks = ExampleList /\ qsection = "today" /\ qrange = <<5, 9>>

\* ---- C10
\* The content computed for s in the list asked about.
Computed(s) ==
  IF qsection = "all" THEN qparts[s] ELSE Slice(qblocks, qrange[1], qrange[2])

Asked == IF qsection = "all" THEN Sections ELSE {qsection} \cap Sections

NoHeaderInside(q) ==
  \A k \in DOMAIN q : \A t \in Sections : ~IsHeaderOf(q[k], t)

\* C10 as stated: for every block list, headers in any order, the content
\* computed for a section is the blocks after its header up to the next header
\* of another section that physically follows, or to the end of the list; the
\* four contents are pairwise disjoint and hold no recognised header.
C10_PhysicalOrder ==
  /\ \A s \in Asked :
       Computed(s) = PhysContent(qblocks, s) /\ NoHeaderInside(Computed(s))
  /\ qsection = "all" =>
       \A s, t \in Sections : s # t => Ids(qparts[s]) \cap Ids(qparts[t]) = {}

\* C10 amended: for every block list the content computed for a section is the
\* blocks from its first header to the first header of the sections later in
\* the precedence Daily < Today < Tomorrow < Backlog (or the end of the list),
\* the same by partition_by_sections and by get_section_range; the four
\* contents are pairwise disjoint for every order of the headers; and when each
\* header occurs once and the headers are in the order Daily, Today, Tomorrow,
\* Backlog the content is the section as it lies on the page and holds no
\* recognised header.
C10_PrecedenceOrder ==
  /\ \A s \in Asked :
       /\ Computed(s) = Slice(qblocks, get_section_range(qblocks, s)[1],
                              get_section_range(qblocks, s)[2])
       /\ CanonicalOrder(qblocks) =>
            Computed(s) = PhysContent(qblocks, s) /\ NoHeaderInside(Computed(s))
  /\ qsection = "all" =>
       \A s, t \in Sections : s # t => Ids(qparts[s]) \cap Ids(qparts[t]) = {}

\* C10 witness: the partition of the example list, Today holding the four
\* blocks between the Today and the Backlog header.
C10_Witness ==
  /\ qsection = "all" /\ qblocks = ExampleList
  /\ CanonicalOrder(qblocks)
  /\ qparts["today"] = SubSeq(qblocks, 6, 9)
  /\ Len(qparts["backlog"]) = 2

\* ---- C11
\* The number of spaces a text starts with.
LeadSpaces(t) ==
  CHOOSE k \in 0..Len(t) :
    /\ \A i \in 1..k : t[i] = " "
    /\ k = Len(t) \/ t[k + 1] # " "

\* The characters of t after its leading spaces begin with name, letter case
\* apart.
LiteralPrefix(t, name) ==
  /\ Len(t) - LeadSpaces(t) >= Len(name)
  /\ \A i \in 1..Len(name) : Lower(t[LeadSpaces(t) + i]) = Lower(name[i])

\* The text trimmed, stripped of trailing colons and case-folded, in that order.
Folded(t) == LowerStr(RStripColon(Strip(t)))

HeaderKind(b) == b.type \in {"heading_1", "heading_2", "heading_3", "paragraph"}

\* C11: a block is recognised as the header of section S if and only if it is
\* a heading or a paragraph and its text, trimmed, stripped of trailing colons
\* and case-folded, starts with the name of S, which is a literal prefix match
\* after the leading blanks; "Today: (2/5)" and "Todayish" are Today headers,
\* and a checklist item is never a header.
C11_HeaderPrefixMatch ==
  qsection \in Sections =>
    LET b == qblocks[1]
        name == SectionName(qsection)
    IN /\ qheader <=> (HeaderKind(b) /\ StartsWith(Folded(b.text), LowerStr(name)))
       /\ qheader <=> (HeaderKind(b) /\ LiteralPrefix(b.text, name))
       /\ (HeaderKind(b) /\ b.text \in {TodayWithCount, Todayish}) =>
            (qheader <=> qsection = "today")
       /\ b.type = "to_do" => ~qheader

\* C11 witness: the heading "Todayish" asked about Today and recognised.
C11_Witness ==
  /\ qsection = "today" /\ qheader
  /\ qblocks[1].type = "heading_2" /\ qblocks[1].text = Todayish

\* ---- C12
\* C12 as stated: no run ends because a title lookup for a log store failed,
\* neither the lookup at process start nor the one made on the way to a log
\* write.
C12_LookupNeverFatal == err \notin {"done_lookup", "daily_lookup"}

\* ---- C13
Unchecked0 == {b \in TodosOf(doc0) : ~b.checked}

\* An unchecked copy of b with the same text is on the page.
HasCopy(b) ==
  \E c \in CopiesOf(b, doc) : IsTodo(c) /\ ~c.checked /\ c.text = b.text

\* C13: in every state of every run, runs cut short by a failed gateway call
\* included, an item that was unchecked at the start has been deleted only if
\* a copy of it is on the page (the insert of the copies precedes the deletes),
\* so each such item is on the page as its original or as a copy.
C13_AppendBeforeDelete ==
  \A b \in Unchecked0 :
    /\ DeletesOf(b) # {} => HasCopy(b)
    /\ b.id \in Ids(doc) \/ HasCopy(b)

\* C13 witness: a run cut short by a failed delete after the insert: one
\* original deleted with its copy on the page, another still there beside its
\* copy.
C13_Witness ==
  /\ pc = "aborted" /\ err = "gateway"
  /\ \E b, c \in Unchecked0 :
       /\ DeletesOf(b) # {} /\ HasCopy(b)
       /\ c.id \in Ids(doc) /\ HasCopy(c)

\* ---- C14
IdSeq(q) == [k \in DOMAIN q |-> q[k].id]

IsSuffix(w, q) == \E k \in 0..Len(q) : w = SubSeq(q, k + 1, Len(q))

\* The block list, fetched by this run, whose id sequence is that of the page
\* now: no insert and no delete was accepted since it was fetched.
Fresh(q) == IdSeq(q) = IdSeq(doc)

AfterFetch ==
  pc \in {"daily", "headers", "tomorrow", "delete_tomorrow", "backlog", "today",
          "delete_today", "repair", "repair_delete", "placeholder",
          "placeholder_today", "placeholder_tomorrow", "placeholder_daily",
          "done"}

CheckedTodos(q) == SelectSeq(q, LAMBDA b : IsTodo(b) /\ b.checked)

NoRepeat(q) == \A i, j \in DOMAIN q : i # j => q[i] # q[j]

\* C15: in every state of a run, headers in any order, no block id was deleted
\* twice or archived twice, and every command still to be issued targets a
\* block that is on the page: the ids the delete loops have still to delete,
\* the ids marked for deletion, and the blocks the Tomorrow, Backlog and Today
\* loops have still to archive, copy or delete.
C15_NoDoubleMutation ==
  /\ NoRepeat(deleted)
  /\ \A i, j \in DOMAIN doneLog : i # j => doneLog[i].of # doneLog[j].of
  /\ \A k \in DOMAIN doneLog :
       \A j \in DOMAIN deleted :
         deleted[j] = doneLog[k].of => doneLog[k].of \notin Ids(doc)
  /\ pc \in {"delete_tomorrow", "delete_today", "repair_delete"} =>
       NoRepeat(work) /\ \A k \in DOMAIN work : work[k] \in Ids(doc)
  /\ pc \in {"tomorrow", "backlog", "today"} =>
       NoRepeat(work) /\ \A k \in DOMAIN work : work[k].id \in Ids(doc)
  /\ pc = "tomorrow" =>
       NoRepeat(to_delete_tomorrow_ids)
       /\ \A k \in DOMAIN to_delete_tomorrow_ids :
            to_delete_tomorrow_ids[k] \in Ids(doc)
  /\ pc = "today" =>
       NoRepeat(to_delete_ids)
       /\ \A k \in DOMAIN to_delete_ids : to_delete_ids[k] \in Ids(doc)
  /\ \A c \in Range(doc) : c.src # NoId => c.src \in Ids(doc0)

\* C15 witness: a finished run that deleted two blocks and archived both.
C15_Witness ==
  /\ pc = "done"
  /\ Len(deleted) = 2 /\ Len(doneLog) = 2
  /\ HasHeader(doc0, "today") /\ HasHeader(doc0, "backlog")

\* ---- C16
\* The checklist items unchecked in the Backlog section at the start, in order.
BacklogKept0 ==
  SelectSeq(PhysContent(doc0, "backlog"), LAMBDA b : IsTodo(b) /\ ~b.checked)

\* The unchecked copies made by the Today loop have been inserted.
Demoted == to_append # <<>> /\ pc \in {"delete_today", "repair", "repair_delete",
                                      "placeholder", "placeholder_today",
                                      "placeholder_tomorrow", "placeholder_daily",
                                      "done"}

\* C16: in every state of a run the checklist items that were unchecked in
\* Backlog at the start are on the page, same id, text and state, in the same
\* order; of the Backlog checklist items only checked ones are archived or
\* deleted; and once the items demoted from Today are inserted they lie, in
\* order, directly after the Backlog header, before the items Backlog had.
C16_BacklogFrame ==
  LET kept == BacklogKept0
      keptSet == Range(kept)
      hp == HeaderPos(doc, "backlog")
  IN /\ SelectSeq(doc, LAMBDA x : x \in keptSet) = kept
     /\ \A b \in TodosOf(PhysContent(doc0, "backlog")) :
          /\ (DeletesOf(b) # {} \/ RecordsOf(b) # {}) => b.checked
          /\ CopiesOf(b, doc) = {}
          /\ (pc = "done" /\ b.checked) => b.id \notin Ids(doc)
     /\ Demoted =>
          /\ hp + Len(to_append) <= Len(doc)
          /\ \A k \in DOMAIN to_append :
               /\ doc[hp + k].src = to_append[k].src
               /\ doc[hp + k].text = to_append[k].text
               /\ IsTodo(doc[hp + k]) /\ ~doc[hp + k].checked
          /\ \A j \in DOMAIN doc :
               doc[j] \in keptSet => j > hp + Len(to_append)

\* C16 witness: a finished run that demoted an item from Today into a Backlog
\* that held an unchecked item.
C16_Witness ==
  /\ pc = "done"
  /\ BacklogKept0 # <<>>
  /\ to_append # <<>>

\* ---- C17
\* The blocks after the first Backlog header, to the end of the page.
AfterBacklogHeader(d) ==
  IF HasHeader(d, "backlog") THEN SubSeq(d, HeaderPos(d, "backlog") + 1, Len(d))
  ELSE <<>>

BlankParagraph(b) ==
  b.type = "paragraph" /\ \A k \in DOMAIN b.text : b.text[k] = " "

\* C17: a run that ends normally leaves no empty paragraph after the Backlog
\* header; the ids the repair step has still to delete are those of empty
\* paragraphs that lie after the Backlog header; and every block a run deletes
\* is a checklist item or an empty paragraph, never a heading or a paragraph
\* with text.
C17_ContiguityRepair ==
  /\ pc = "done" =>
       \A k \in DOMAIN AfterBacklogHeader(doc) :
         ~BlankParagraph(AfterBacklogHeader(doc)[k])
  /\ pc = "repair_delete" =>
       \A k \in DOMAIN work :
         \E b \in Range(AfterBacklogHeader(doc)) :
           b.id = work[k] /\ BlankParagraph(b)
  /\ \A k \in DOMAIN deleted :
       \E b \in Range(doc0) :
         b.id = deleted[k] /\ (IsTodo(b) \/ BlankParagraph(b))
  /\ (pc \in {"placeholder", "placeholder_today", "placeholder_tomorrow",
              "placeholder_daily", "done"}) =>
       \A b \in Range(doc0) :
         (b \in Range(AfterBacklogHeader(doc0)) /\ BlankParagraph(b))
           <=> (DeletesOf(b) # {} /\ ~IsTodo(b))

\* C17 witness: a finished run on a page whose Backlog range held an empty
\* paragraph, now deleted, and holds a paragraph with text, still there.
C17_Witness ==
  /\ pc = "done"
  /\ \E b \in Range(doc0) : BlankParagraph(b) /\ DeletesOf(b) # {}
  /\ \E b \in Range(AfterBacklogHeader(doc)) :
       b.type = "paragraph" /\ ~BlankParagraph(b)

\* ---- C18
\* C18 as stated: in one run at most one title lookup is issued for each of
\* the two log stores, whatever the first lookup returned.
C18_ResolvedOnce == lookups.done <= 1 /\ lookups.daily <= 1

\* ---- C19
IsAnyHeader(b) == \E s \in Sections : IsHeaderOf(b, s)

HeadersOf(d) == SelectSeq(d, IsAnyHeader)

\* C19: in every state of every run, runs cut short by a failed gateway call
\* included, the header blocks of the page are those of the starting page, same
\* blocks, same order: no header was deleted, inserted, re-checked or copied.
C19_HeadersPreserved ==
  /\ HeadersOf(doc) = HeadersOf(doc0)
  /\ \A k \in DOMAIN deleted : deleted[k] \notin Ids(HeadersOf(doc0))
  /\ \A c \in Range(doc) : c.src # NoId => c.src \notin Ids(HeadersOf(doc0))

\* C19 witness: a run on a page with the four headers, cut short by a failed
\* gateway call after it had inserted and deleted blocks.
C19_Witness ==
  /\ pc = "aborted" /\ err = "gateway"
  /\ deleted # <<>> /\ nextId > Len(doc0) + 1
  /\ Len(HeadersOf(doc)) = 4

\* ---- C20
\* C20 as stated: in the second of two runs no checklist item with empty text
\* is copied, and when that run is over Backlog holds as many checklist items
\* as when it started.
C20_PlaceholdersNotCopied ==
  run = 2 =>
    /\ \A c \in Range(doc) : c.src # NoId => c.text # <<>>
    /\ pc = "done" =>
         Cardinality(TodosOf(PhysContent(doc, "backlog")))
           = Cardinality(TodosOf(PhysContent(doc0, "backlog")))

====
